---- MODULE Spec2Model ----
(***************************************************************************)
(* Model of src/index.js: the Playlix calendar backend.  One process-wide  *)
(* OAuth2 client (its `credentials` field), the token file, the provider's *)
(* calendar, and a bounded number of HTTP requests, each one an async      *)
(* handler that suspends at every awaited external call.                   *)
(*                                                                         *)
(* The provider's calendar starts empty and changes only by this service's *)
(* inserts.                                                                *)
(*                                                                         *)
(* Time values are milliseconds counted from 2026-01-01T00:00:00Z (the     *)
(* model's origin, so that every value fits TLC's integers); strings that  *)
(* the code inspects character by character are tuples of characters.      *)
(***************************************************************************)
EXTENDS Integers, Sequences, FiniteSets, TLC

\* Number of HTTP requests (availability or schedule) a behaviour contains.
MaxReqs == 2

Reqs == 1..MaxReqs

SecMs  == 1000
MinMs  == 60 * SecMs
HourMs == 60 * MinMs
DayMs  == 24 * HourMs

\* The fixed operational offset "-03:00" (America/Sao_Paulo), as ms east of UTC.
OperationalOffset == -(3 * HourMs)

\* Offsets east of UTC the process's local timezone may have: UTC (the
\* serverless deployment) or Sao Paulo (a local development machine).
ServerOffsets == {0, OperationalOffset}

-----------------------------------------------------------------------------
(* Strings *)

Digits == {"0", "1", "2", "3", "4", "5", "6", "7", "8", "9"}

DigitVal(c) ==
    CASE c = "0" -> 0 [] c = "1" -> 1 [] c = "2" -> 2 [] c = "3" -> 3
      [] c = "4" -> 4 [] c = "5" -> 5 [] c = "6" -> 6 [] c = "7" -> 7
      [] c = "8" -> 8 [] c = "9" -> 9

AllDigits(s, from, to) == \A k \in from..to : s[k] \in Digits

Num2(s, k) == 10 * DigitVal(s[k]) + DigitVal(s[k + 1])

Num3(s, k) == 100 * DigitVal(s[k]) + 10 * DigitVal(s[k + 1]) + DigitVal(s[k + 2])

\* A request field that is absent from the body or query (JavaScript undefined).
Undefined == <<"undefined">>

\* Stands for the date of a request whose handler has returned.
Released == <<"released">>

\* JavaScript truthiness of a request field: undefined and "" are falsy.
Truthy(v) == v # Undefined /\ v # <<>>

-----------------------------------------------------------------------------
(* Date strings and the JavaScript Date built from them *)

D20260110 == <<"2", "0", "2", "6", "-", "0", "1", "-", "1", "0">>
D20260111 == <<"2", "0", "2", "6", "-", "0", "1", "-", "1", "1">>
T1400     == <<"T", "1", "4", ":", "0", "0">>
T1430     == <<"T", "1", "4", ":", "3", "0">>
T2200     == <<"T", "2", "2", ":", "0", "0">>
Sec00     == <<":", "0", "0">>
OffM0300  == <<"-", "0", "3", ":", "0", "0">>
NotADate  == <<"a", "m", "a", "n", "h", "a">>

\* The `date` values of POST /api/schedule bodies: a bare local date-time
\* with seconds, one without, a date-time that carries a designator, a
\* string that is no date, the empty string and an absent field.
ScheduleDates ==
    { D20260110 \o T1400 \o Sec00,
      D20260110 \o T1430,
      D20260110 \o T2200 \o Sec00 \o OffM0300,
      NotADate,
      <<>>,
      Undefined }

\* The `date` values of GET /api/availability queries.
AvailabilityDates == {D20260110, D20260111, NotADate, Undefined}

\* Line 194: /^\d{4}-\d{2}-\d{2}T\d{2}:\d{2}:\d{2}$/.test(date)
IsNaiveDate(s) ==
    /\ Len(s) = 19
    /\ AllDigits(s, 1, 4)   /\ s[5] = "-"
    /\ AllDigits(s, 6, 7)   /\ s[8] = "-"
    /\ AllDigits(s, 9, 10)  /\ s[11] = "T"
    /\ AllDigits(s, 12, 13) /\ s[14] = ":"
    /\ AllDigits(s, 15, 16) /\ s[17] = ":"
    /\ AllDigits(s, 18, 19)

\* Lines 194-197: a naive date string gets "-03:00" appended.
NormalizeDate(s) == IF IsNaiveDate(s) THEN s \o OffM0300 ELSE s

\* YYYY-MM-DD at the head of s, within the modelled month (January 2026).
HasDatePart(s) ==
    /\ Len(s) >= 10
    /\ AllDigits(s, 1, 4)  /\ s[5] = "-"
    /\ AllDigits(s, 6, 7)  /\ s[8] = "-"
    /\ AllDigits(s, 9, 10)
    /\ SubSeq(s, 1, 8) = SubSeq(D20260110, 1, 8)
    /\ Num2(s, 9) \in 1..20

HasHourMin(s) ==
    /\ Len(s) >= 16
    /\ s[11] = "T"
    /\ AllDigits(s, 12, 13) /\ s[14] = ":" /\ AllDigits(s, 15, 16)
    /\ Num2(s, 12) \in 0..23 /\ Num2(s, 15) \in 0..59

HasSeconds(s) ==
    /\ Len(s) >= 19
    /\ s[17] = ":" /\ AllDigits(s, 18, 19) /\ Num2(s, 18) \in 0..59

HasMillis(s) ==
    /\ HasSeconds(s)
    /\ Len(s) >= 23
    /\ s[20] = "." /\ AllDigits(s, 21, 23)

\* The designator that may end a date-time: "", "Z" or a signed HH:mm.
IsOffset(z) ==
    \/ z = <<>>
    \/ z = <<"Z">>
    \/ /\ Len(z) = 6
       /\ z[1] \in {"+", "-"}
       /\ AllDigits(z, 2, 3) /\ z[4] = ":" /\ AllDigits(z, 5, 6)

\* ms east of UTC that a designator denotes; none means local time.
OffsetMs(z, localOffset) ==
    IF z = <<>> THEN localOffset
    ELSE IF z = <<"Z">> THEN 0
    ELSE (IF z[1] = "-" THEN -1 ELSE 1) * (Num2(z, 2) * HourMs + Num2(z, 5) * MinMs)

InvalidDate == [valid |-> FALSE, t |-> 0]

\* new Date(string): the ECMAScript date-time string format.  A date-only
\* form is UTC; a date-time form without designator is local time; a
\* designator fixes the offset; anything else is an Invalid Date.
NewDate(s, localOffset) ==
    IF ~HasDatePart(s) THEN InvalidDate
    ELSE LET day == (Num2(s, 9) - 1) * DayMs
         IN  IF Len(s) = 10 THEN [valid |-> TRUE, t |-> day]
             ELSE IF ~HasHourMin(s) THEN InvalidDate
             ELSE LET k    == IF HasMillis(s) THEN 23
                              ELSE IF HasSeconds(s) THEN 19 ELSE 16
                      z    == SubSeq(s, k + 1, Len(s))
                      wall == day + Num2(s, 12) * HourMs + Num2(s, 15) * MinMs
                                  + (IF HasSeconds(s) THEN Num2(s, 18) * SecMs ELSE 0)
                                  + (IF HasMillis(s) THEN Num3(s, 21) ELSE 0)
                  IN  IF IsOffset(z)
                      THEN [valid |-> TRUE, t |-> wall - OffsetMs(z, localOffset)]
                      ELSE InvalidDate

\* Date.prototype.setHours(h, m, s, ms): the same local calendar day at the
\* given local wall time.
SetHours(t, wallMs, localOffset) ==
    LET local == t + localOffset
    IN  (local - (local % DayMs)) + wallMs - localOffset

-----------------------------------------------------------------------------
(* State *)

VARIABLES
    envRefreshToken,  \* process.env.GOOGLE_REFRESH_TOKEN is set (truthy)
    serverOffset,     \* the process's local timezone, ms east of UTC
    tokenFile,        \* what tokens.json holds
    credentials,      \* oauth2Client.credentials
    startup,          \* the un-awaited loadTokens() of line 72
    auth,             \* the /auth/callback handler's position
    calendar,         \* the provider's events of calendar "primary"
    reqs              \* the availability and schedule requests

vars == <<envRefreshToken, serverOffset, tokenFile, credentials, startup,
          auth, calendar, reqs>>

\* tokens.json: absent, not JSON, the JSON text null, or a saved token object.
FileContents == {"missing", "corrupt", "null", "tokens"}

\* oauth2Client.credentials: "empty" is the {} a new OAuth2 client holds
\* until setCredentials is called; "env" is {refresh_token: <env>}; "file"
\* is the object parsed from tokens.json; "null" is the JSON null parsed from
\* it; "oauth" is the token set of a code exchange.
\* !oauth2Client.credentials is false for every object, {} included.
HasCredentials(c) == c # "null"

\* JSON.parse(content) of a readable, well-formed tokens.json.
JSONParse(file) == IF file = "null" THEN "null" ELSE "file"

\* Errors thrown inside a handler's try block.  code 0 stands for an error
\* object without a code; message is the error's message, word by word.
NoError     == [code |-> 0, message |-> <<>>]
RangeError  == [code |-> 0, message |-> <<"Invalid", "time", "value">>]
NoAccess    == [code |-> 0, message |-> <<"No", "access", "or", "refresh", "token", "is", "set">>]
GatewayErrors ==
    { [code |-> 401, message |-> <<"Invalid", "Credentials">>],
      [code |-> 400, message |-> <<"invalid_grant">>],
      [code |-> 500, message |-> <<"Backend", "Error">>] }

\* What a Calendar Gateway call may come back with: the provider's answer,
\* or an error.  A client that holds no token at all cannot sign a request.
GatewayOutcomes(c) ==
    IF c = "empty" THEN {[ok |-> FALSE, err |-> NoAccess]}
    ELSE {[ok |-> TRUE, err |-> NoError]} \cup {[ok |-> FALSE, err |-> e] : e \in GatewayErrors}

\* String.prototype.includes, on a message held word by word.
Includes(message, word) == \E k \in 1..Len(message) : message[k] = word

PresentName  == <<"A", "n", "a">>
PresentEmail == <<"a", "n", "a", "@", "x", ".", "c", "o", "m">>

Body(name, email, date) == [name |-> name, email |-> email, date |-> date]

\* The bodies of POST /api/schedule requests: complete ones, one for each
\* date string, and ones with a field absent or empty.
ScheduleBodies ==
    {Body(PresentName, PresentEmail, d) : d \in ScheduleDates}
      \cup {Body(n, PresentEmail, D20260110 \o T1400 \o Sec00) : n \in {<<>>, Undefined}}
      \cup {Body(PresentName, e, D20260110 \o T1400 \o Sec00) : e \in {<<>>, Undefined}}
      \cup {Body(Undefined, Undefined, Undefined)}

IdleReq ==
    [kind |-> "none", pc |-> "idle", name |-> Undefined, email |-> Undefined,
     date |-> Undefined, tmin |-> 0, tmax |-> 0, status |-> 0, err |-> NoError,
     listed |-> "no", inserts |-> 0, load |-> "none", slots |-> {}]

-----------------------------------------------------------------------------
(* Credential store *)

\* loadTokens with the two sources tried in the opposite order.
loadTokensFileFirst(env, file, creds) ==
    IF file \notin {"missing", "corrupt"}
    THEN [ret |-> TRUE, credentials |-> JSONParse(file), readFile |-> TRUE]
    ELSE IF env
    THEN [ret |-> TRUE, credentials |-> "env", readFile |-> TRUE]
    ELSE [ret |-> FALSE, credentials |-> creds, readFile |-> TRUE]

\* loadTokens (lines 36-57), given what tokens.json holds when it is read:
\* the value it resolves to, the credentials it leaves installed, and
\* whether it read the file.
loadTokens(env, file, creds) ==
    IF env
    THEN [ret |-> TRUE, credentials |-> "env", readFile |-> FALSE]
    ELSE IF file \in {"missing", "corrupt"}
    THEN [ret |-> FALSE, credentials |-> creds, readFile |-> TRUE]
    ELSE [ret |-> TRUE, credentials |-> JSONParse(file), readFile |-> TRUE]

RetName(b) == IF b THEN "true" ELSE "false"

Init ==
    /\ envRefreshToken \in BOOLEAN
    /\ serverOffset \in ServerOffsets
    /\ tokenFile \in FileContents
    /\ calendar = {}
    /\ auth = "idle"
    /\ reqs = [i \in Reqs |-> IdleReq]
    \* line 72: loadTokens() runs while the module loads, to its end or to
    \* its await of the file
    /\ LET l == loadTokens(envRefreshToken, tokenFile, "empty")
       IN  IF l.readFile
           THEN credentials = "empty" /\ startup = "reading"
           ELSE credentials = l.credentials /\ startup = RetName(l.ret)

\* fs.readFile of the startup loadTokens() completes.
StartupLoaded ==
    /\ startup = "reading"
    /\ LET r == loadTokens(envRefreshToken, tokenFile, credentials)
       IN  /\ credentials' = r.credentials
           /\ startup' = RetName(r.ret)
    /\ UNCHANGED <<envRefreshToken, serverOffset, tokenFile, auth, calendar, reqs>>

\* GET /auth/callback, lines 91-98: getToken resolves, the tokens are
\* installed and saveTokens' writeFile is issued.  (A getToken that rejects
\* is answered 500, lines 111-118, and changes nothing.)
AuthCallbackExchanged ==
    /\ auth = "idle"
    /\ credentials' = "oauth"
    /\ auth' = "saving"
    /\ UNCHANGED <<envRefreshToken, serverOffset, tokenFile, startup, calendar, reqs>>

\* saveTokens (lines 62-69): the write lands, or fails and is swallowed;
\* then the handler answers (lines 102-110).
AuthCallbackSaved ==
    /\ auth = "saving"
    /\ tokenFile' \in {tokenFile, "tokens"}
    /\ auth' = "idle"
    /\ UNCHANGED <<envRefreshToken, serverOffset, credentials, startup, calendar, reqs>>

-----------------------------------------------------------------------------
(* Calendar gateway *)

\* events.list with timeMin and timeMax: the events that end after timeMin
\* and start before timeMax.
EventsList(cal, timeMin, timeMax) ==
    {e \in cal : e.end > timeMin /\ e.start < timeMax}

\* Line 209 without the hour added.
endDateTimeNoHour(start) == start

\* Line 209: one hour after the start.
endDateTime(start) == start + 60 * 60 * 1000

\* Lines 226-253: the event a schedule request inserts (its times, and the
\* request that made it; summary is the event's real title).
BookingEvent(i, r) ==
    [start |-> r.tmin, end |-> r.tmax, by |-> i, summary |-> "Demo Playlix"]

\* Lines 165-171: one busy slot per event, under the fixed label.
busySlots(events) ==
    {[start |-> e.start, end |-> e.end, summary |-> "Ocupado"] : e \in events}

\* The test of line 220 with the bound off by one.
HasConflictOffByOne(items) == Cardinality(items) > 1

\* The test of line 220 never taken.
HasConflictNever(items) == FALSE

\* Line 220: conflictCheck.data.items && conflictCheck.data.items.length > 0
HasConflict(items) == Cardinality(items) > 0

-----------------------------------------------------------------------------
(* Handlers *)

\* The check of line 188 without its email operand.
MissingFieldsNoEmail(name, email, date) == ~Truthy(name) \/ ~Truthy(date)

\* Line 188: !name || !email || !date
MissingFields(name, email, date) == ~Truthy(name) \/ ~Truthy(email) \/ ~Truthy(date)

\* The test of line 270 without its invalid_grant operand.
CatchStatusCodeOnly(err) == IF err.code = 401 THEN 401 ELSE 500

\* Lines 268-275: the status the schedule handler's catch answers with.
CatchStatus(err) ==
    IF err.code = 401 \/ Includes(err.message, "invalid_grant") THEN 401 ELSE 500

\* A handler that has answered after its auth guard: the date it worked on
\* and the times made from it are gone, what it did stays (the outcome of
\* a loadTokens() it awaited stays only if it answered right after it).
Answered(r, status) ==
    [r EXCEPT !.pc = "done", !.status = status, !.date = Released,
              !.tmin = 0, !.tmax = 0,
              !.load = IF r.pc = "loading" THEN r.load ELSE "none"]

\* Lines 126 and 189: the answer keeps the body it was given.
Rejected(r) == [r EXCEPT !.pc = "done", !.status = 400]

ScheduleCatch(r, e) == Answered([r EXCEPT !.err = e], CatchStatus(e))

\* Lines 178-181: the availability handler's catch always answers 500.
AvailabilityCatch(r, e) == Answered([r EXCEPT !.err = e], 500)

\* Lines 207-218: the start and end of the booking and the conflict-check
\* listing issued for them; toISOString throws on an Invalid Date.
ScheduleCall(r, localOffset) ==
    LET startDateTime == NewDate(NormalizeDate(r.date), localOffset)
    IN  IF startDateTime.valid
        THEN [r EXCEPT !.pc = "listing", !.tmin = startDateTime.t,
                       !.tmax = endDateTime(startDateTime.t)]
        ELSE ScheduleCatch(r, RangeError)

\* Lines 138-160: the day window and the listing issued for it.
AvailabilityCall(r, localOffset) ==
    LET day == NewDate(r.date, localOffset)
    IN  IF day.valid
        THEN [r EXCEPT !.pc = "listing",
                       !.tmin = SetHours(day.t, 0, localOffset),
                       !.tmax = SetHours(day.t, DayMs - 1, localOffset)]
        ELSE AvailabilityCatch(r, RangeError)

Call(r, localOffset) ==
    IF r.kind = "sched" THEN ScheduleCall(r, localOffset)
    ELSE AvailabilityCall(r, localOffset)

\* Lines 134 and 203.
AuthRequired(r) == Answered(r, 401)

\* Lines 130-136 and 200-205, up to the first suspension: with credentials
\* the handler goes on; without, it calls loadTokens, which finishes at once
\* on the environment token and otherwise waits for the file.
AuthGuard(i, r) ==
    LET l == loadTokens(envRefreshToken, tokenFile, credentials)
    IN  IF HasCredentials(credentials)
        THEN /\ reqs' = [reqs EXCEPT ![i] = Call(r, serverOffset)]
             /\ UNCHANGED credentials
        ELSE IF l.readFile
        THEN /\ reqs' = [reqs EXCEPT ![i] = [r EXCEPT !.pc = "loading"]]
             /\ UNCHANGED credentials
        ELSE /\ credentials' = l.credentials
             /\ reqs' = [reqs EXCEPT ![i] =
                           IF HasCredentials(l.credentials)
                           THEN Call([r EXCEPT !.load = RetName(l.ret)], serverOffset)
                           ELSE AuthRequired([r EXCEPT !.load = RetName(l.ret)])]

\* Requests take the slots in order.
CanStart(i) == reqs[i].pc = "idle" /\ \A j \in 1..(i - 1) : reqs[j].pc # "idle"

\* GET /api/availability, lines 122-136.
AvailabilityStart(i) ==
    /\ CanStart(i)
    /\ \E date \in AvailabilityDates :
         LET r == [reqs[i] EXCEPT !.kind = "avail", !.date = date]
         IN  IF ~Truthy(date)
             THEN /\ reqs' = [reqs EXCEPT ![i] = Rejected(r)]
                  /\ UNCHANGED credentials
             ELSE AuthGuard(i, r)
    /\ UNCHANGED <<envRefreshToken, serverOffset, tokenFile, startup, auth, calendar>>

\* POST /api/schedule, lines 185-205.
ScheduleStart(i) ==
    /\ CanStart(i)
    /\ \E body \in ScheduleBodies :
         LET r == [reqs[i] EXCEPT !.kind = "sched", !.name = body.name,
                                  !.email = body.email, !.date = body.date]
         IN  IF MissingFields(body.name, body.email, body.date)
             THEN /\ reqs' = [reqs EXCEPT ![i] = Rejected(r)]
                  /\ UNCHANGED credentials
             ELSE AuthGuard(i, r)
    /\ UNCHANGED <<envRefreshToken, serverOffset, tokenFile, startup, auth, calendar>>

\* Lines 132-136 and 201-205: the awaited loadTokens() finishes reading the
\* file and the handler looks at the credentials again.
Loaded(i) ==
    /\ reqs[i].pc = "loading"
    /\ LET l == loadTokens(envRefreshToken, tokenFile, credentials)
           r == [reqs[i] EXCEPT !.load = RetName(l.ret)]
       IN  /\ credentials' = l.credentials
           /\ reqs' = [reqs EXCEPT ![i] =
                         IF HasCredentials(l.credentials)
                         THEN Call(r, serverOffset)
                         ELSE AuthRequired(r)]
    /\ UNCHANGED <<envRefreshToken, serverOffset, tokenFile, startup, auth, calendar>>

\* Lines 153-181: the day's listing comes back.
AvailabilityListed(i) ==
    /\ reqs[i].kind = "avail" /\ reqs[i].pc = "listing"
    /\ \E o \in GatewayOutcomes(credentials) :
         LET r == reqs[i]
         IN  reqs' = [reqs EXCEPT ![i] =
                IF o.ok
                THEN [r EXCEPT !.pc = "done", !.status = 200, !.listed = "ok",
                               !.slots = busySlots(EventsList(calendar, r.tmin, r.tmax))]
                ELSE AvailabilityCatch([r EXCEPT !.listed = "fail"], o.err)]
    /\ UNCHANGED <<envRefreshToken, serverOffset, tokenFile, credentials, startup,
                   auth, calendar>>

\* Lines 212-260: the conflict-check listing comes back; on no conflict the
\* event is built and its insert issued.
ScheduleListed(i) ==
    /\ reqs[i].kind = "sched" /\ reqs[i].pc = "listing"
    /\ \E o \in GatewayOutcomes(credentials) :
         LET items == EventsList(calendar, reqs[i].tmin, reqs[i].tmax)
             r     == [reqs[i] EXCEPT !.listed = IF ~o.ok THEN "fail"
                                                ELSE IF items = {} THEN "empty"
                                                ELSE "busy"]
         IN  reqs' = [reqs EXCEPT ![i] =
                IF ~o.ok
                THEN ScheduleCatch(r, o.err)
                ELSE IF HasConflict(items)
                THEN Answered(r, 409)
                ELSE [r EXCEPT !.pc = "inserting", !.inserts = r.inserts + 1]]
    /\ UNCHANGED <<envRefreshToken, serverOffset, tokenFile, credentials, startup,
                   auth, calendar>>

\* Lines 255-275: the insert comes back.
ScheduleInserted(i) ==
    /\ reqs[i].pc = "inserting"
    /\ \E o \in GatewayOutcomes(credentials) :
         IF o.ok
         THEN /\ calendar' = calendar \cup {BookingEvent(i, reqs[i])}
              /\ reqs' = [reqs EXCEPT ![i] = Answered(reqs[i], 200)]
         ELSE /\ reqs' = [reqs EXCEPT ![i] = ScheduleCatch(reqs[i], o.err)]
              /\ UNCHANGED calendar
    /\ UNCHANGED <<envRefreshToken, serverOffset, tokenFile, credentials, startup, auth>>

Next ==
    \/ StartupLoaded
    \/ AuthCallbackExchanged
    \/ AuthCallbackSaved
    \/ \E i \in Reqs : AvailabilityStart(i)
    \/ \E i \in Reqs : ScheduleStart(i)
    \/ \E i \in Reqs : Loaded(i)
    \/ \E i \in Reqs : AvailabilityListed(i)
    \/ \E i \in Reqs : ScheduleListed(i)
    \/ \E i \in Reqs : ScheduleInserted(i)

Spec == Init /\ [][Next]_vars

\* Schedule requests that do not overlap in time: a request's conflict
\* check is issued only when no other schedule request is between its own
\* conflict check and its answer.
OtherScheduleInGateway(i) ==
    \E j \in Reqs \ {i} :
        reqs[j].kind = "sched" /\ reqs[j].pc \in {"listing", "inserting"}

IssuesConflictCheck(i) ==
    reqs[i].pc # "listing" /\ reqs'[i].kind = "sched" /\ reqs'[i].pc = "listing"

SeqScheduleStart(i) ==
    /\ ScheduleStart(i)
    /\ IssuesConflictCheck(i) => ~OtherScheduleInGateway(i)

SeqLoaded(i) ==
    /\ Loaded(i)
    /\ IssuesConflictCheck(i) => ~OtherScheduleInGateway(i)

SeqNext ==
    \/ StartupLoaded
    \/ AuthCallbackExchanged
    \/ AuthCallbackSaved
    \/ \E i \in Reqs : AvailabilityStart(i)
    \/ \E i \in Reqs : SeqScheduleStart(i)
    \/ \E i \in Reqs : SeqLoaded(i)
    \/ \E i \in Reqs : AvailabilityListed(i)
    \/ \E i \in Reqs : ScheduleListed(i)
    \/ \E i \in Reqs : ScheduleInserted(i)

SeqSpec == Init /\ [][SeqNext]_vars

-----------------------------------------------------------------------------
(* Properties *)

Schedules == {i \in Reqs : reqs[i].kind = "sched"}
Availabilities == {i \in Reqs : reqs[i].kind = "avail"}

\* A Calendar Gateway call of request i is in flight.
InGateway(i) == reqs[i].pc \in {"listing", "inserting"}

\* Request i has issued a Calendar Gateway call at some point.
CalledGateway(i) == InGateway(i) \/ reqs[i].listed # "no" \/ reqs[i].inserts > 0

\* The [start, start + 60 min) windows of two events overlap.
Overlap(e1, e2) == e1.start < e2.start + HourMs /\ e2.start < e1.start + HourMs

\* C1: a schedule request with name, email or date missing or empty is
\* answered 400 and has issued no events.list, no events.insert and no
\* credential load.
C1_MissingFieldRejected ==
    \A i \in Schedules :
        (\E f \in {reqs[i].name, reqs[i].email, reqs[i].date} : f \in {Undefined, <<>>})
            => /\ reqs[i].pc = "done" /\ reqs[i].status = 400
               /\ ~CalledGateway(i)
               /\ reqs[i].load = "none"

\* A request with name and email present and an empty date has been rejected.
C1_Witness ==
    \E i \in Schedules :
        /\ reqs[i].status = 400
        /\ Truthy(reqs[i].name) /\ Truthy(reqs[i].email) /\ reqs[i].date = <<>>

\* C2: a schedule request whose conflict-check listing returned an event is
\* answered 409 and never inserts; a request inserts only after its own
\* listing returned no event.
C2_ConflictNeverInserts ==
    /\ \A i \in Schedules :
          /\ reqs[i].listed = "busy"
                => reqs[i].pc = "done" /\ reqs[i].status = 409 /\ reqs[i].inserts = 0
          /\ (reqs[i].pc = "inserting" \/ reqs[i].inserts > 0)
                => reqs[i].listed = "empty"
    /\ \A e \in calendar : reqs[e.by].listed = "empty"

\* A request has been answered 409 while another one's event is in the calendar.
C2_Witness ==
    \E i \in Schedules :
        /\ reqs[i].status = 409
        /\ \E e \in calendar : e.by # i

\* C3: with no credentials installed, no environment refresh token and no
\* readable token file, every request that passes validation is answered
\* 401 and makes no Calendar Gateway call.
C3_NoCredentialsAuthRequired ==
    (credentials = "empty" /\ ~envRefreshToken /\ tokenFile \in {"missing", "corrupt"})
        => \A i \in Reqs :
              /\ ~CalledGateway(i)
              /\ (reqs[i].pc = "done" /\ reqs[i].status # 400) => reqs[i].status = 401

\* C4: a Calendar Gateway call is in flight or has been issued only if
\* credentials were installed before.
C4_GatewayOnlyWithCredentials ==
    \A i \in Reqs : CalledGateway(i) => credentials # "empty"

\* C5: two events of this service overlap only when both requests' conflict
\* checks saw no event, both inserted and both were answered success (the
\* checks and the inserts interleaved).
C5_DoubleBookingOnlyByRace ==
    \A e1, e2 \in calendar :
        (e1 # e2 /\ Overlap(e1, e2))
            => \A i \in {e1.by, e2.by} :
                  /\ reqs[i].listed = "empty"
                  /\ reqs[i].inserts = 1
                  /\ reqs[i].status = 200

\* Two requests for the same slot have both inserted and both succeeded.
C5_Witness ==
    \E e1, e2 \in calendar :
        /\ e1.by # e2.by
        /\ e1.start = e2.start
        /\ reqs[e1.by].status = 200 /\ reqs[e2.by].status = 200

\* A date-time string with no designator at its end.
IsBareLocalDateTime(s) ==
    /\ HasDatePart(s)
    /\ HasHourMin(s)
    /\ Len(s) = (IF HasMillis(s) THEN 23 ELSE IF HasSeconds(s) THEN 19 ELSE 16)

\* C6: the start time of a schedule request whose date is a bare local
\* date-time is that local time at -03:00, whatever the server's timezone;
\* a date that carries a designator is left unchanged.
C6_BareDateAtOperationalOffset ==
    \A i \in Schedules :
        InGateway(i) =>
            /\ IsBareLocalDateTime(reqs[i].date)
                  => reqs[i].tmin = NewDate(reqs[i].date, OperationalOffset).t
            /\ ~IsBareLocalDateTime(reqs[i].date)
                  => NormalizeDate(reqs[i].date) = reqs[i].date

\* What loadTokens must do to the credentials and resolve to, given the
\* token file it finds.
LoadOutcome(before, after, ret) ==
    IF envRefreshToken
    THEN after = "env" /\ ret = "true"
    ELSE IF tokenFile \in {"tokens", "null"}
    THEN after = JSONParse(tokenFile) /\ ret = "true"
    ELSE after = before /\ ret = "false"

\* C7: loadTokens resolves the credentials in a fixed order.  With the
\* environment token it installs it and resolves true without waiting for
\* the file; otherwise it installs what the file holds and resolves true,
\* or, on a missing or corrupt file, resolves false and leaves the
\* credentials as they were.
C7_LoadOrder ==
    /\ [](envRefreshToken =>
             /\ startup = "true"
             /\ credentials \in {"env", "oauth"}
             /\ \A i \in Reqs : reqs[i].pc # "loading")
    /\ [][/\ (startup = "reading" /\ startup' # "reading")
                => LoadOutcome(credentials, credentials', startup')
          /\ \A i \in Reqs :
                (reqs[i].pc = "loading" /\ reqs'[i].pc # "loading")
                    => LoadOutcome(credentials, credentials', reqs'[i].load)]_vars

\* The startup load found no usable file and left the credentials alone.
C7_Witness == startup = "false" /\ credentials = "empty"

AuthExpiredError(err) == err.code = 401 \/ Includes(err.message, "invalid_grant")

\* C8: a schedule request whose gateway call failed is answered, with 401
\* if the error has code 401 or says invalid_grant and with 500 otherwise.
C8_GatewayFailureMapped ==
    \A i \in Schedules :
        reqs[i].listed = "fail" \/ reqs[i].err \in GatewayErrors \cup {NoAccess}
            => /\ reqs[i].pc = "done"
               /\ reqs[i].status = (IF AuthExpiredError(reqs[i].err) THEN 401 ELSE 500)

\* A request's insert failed with invalid_grant (code 400) and was answered 401.
C8_Witness ==
    \E i \in Schedules :
        /\ reqs[i].inserts = 1
        /\ reqs[i].err.code = 400
        /\ reqs[i].status = 401

\* The day of a date-only string in the operational timezone.
OperationalDayStart(s) == (Num2(s, 9) - 1) * DayMs - OperationalOffset

\* C9: every slot of a successful availability answer starts and ends
\* inside the asked date's [00:00:00.000, 23:59:59.999] in the operational
\* timezone and carries the placeholder label.
C9_SlotsInsideOperationalDay ==
    \A i \in Availabilities :
        reqs[i].status = 200 =>
            \A slot \in reqs[i].slots :
                /\ slot.start >= OperationalDayStart(reqs[i].date)
                /\ slot.end <= OperationalDayStart(reqs[i].date) + DayMs - 1
                /\ slot.summary = "Ocupado"

====
